---- MODULE Spec2Model ----
(***************************************************************************)
(* A model of the bear HTTP multiplexer (ursiform/bear): route             *)
(* registration (Mux.On, handlerize, set, parsePattern), request routing   *)
(* (Mux.ServeHTTP, parsePath, Context.param) and the middleware chain      *)
(* (Context.Next, Context.Set, Context.Get).                               *)
(*                                                                         *)
(* A Go string is a sequence of one-character strings, so that splitting,  *)
(* slicing and the regular expressions are computed and not assumed.       *)
(***************************************************************************)
EXTENDS Naturals, Integers, Sequences, FiniteSets, TLC

(***************************************************************************)
(* The package constants.                                                  *)
(***************************************************************************)
slashr == "/"
slash == <<"/">>
empty == <<>>
asterisk == <<"*">>
lasterisk == <<"*", "/">>
\* the two reserved child keys "\x00" and "\x00\x00"
NUL == "\\x00"
dynamic == <<NUL>>
wildcard == <<NUL, NUL>>
verbs == <<"CONNECT", "DELETE", "GET", "HEAD", "OPTIONS", "POST", "PUT", "TRACE">>

\* the characters the regular expression class \w accepts, among those used
WordChars == {"a", "b", "c", "x", "y"}

(***************************************************************************)
(* String helpers of the Go standard library.                              *)
(***************************************************************************)
\* the 0-based Go slice s[lo:hi]
Slice(s, lo, hi) == SubSeq(s, lo + 1, hi)

\* the least index of s at or after i that holds a slash, 0 when none
RECURSIVE IndexFrom(_, _)
IndexFrom(s, i) ==
    IF i > Len(s) THEN 0
    ELSE IF s[i] = slashr THEN i
    ELSE IndexFrom(s, i + 1)

\* strings.SplitAfter(s, "/"), given the index i of the first slash of s
RECURSIVE SplitAfter(_)
splitAt(s, i) ==
    IF i = 0 THEN <<s>>
    ELSE <<SubSeq(s, 1, i)>> \o SplitAfter(SubSeq(s, i + 1, Len(s)))

\* strings.SplitAfter(s, "/")
SplitAfter(s) == splitAt(s, IndexFrom(s, 1))

\* strings.Join(components, "")
RECURSIVE Join(_)
Join(components) ==
    IF components = <<>> THEN <<>>
    ELSE Head(components) \o Join(Tail(components))

\* dbl.ReplaceAllString(s, "/"): every run of two or more slashes becomes one
RECURSIVE dblReplace(_)
dblReplace(s) ==
    IF Len(s) < 2 THEN s
    ELSE IF s[1] = slashr /\ s[2] = slashr THEN dblReplace(Tail(s))
    ELSE <<s[1]>> \o dblReplace(Tail(s))

\* the end of the longest run of word characters of s that starts at i
\* (i - 1 when s[i] is no word character)
RECURSIVE WordRunEnd(_, _)
WordRunEnd(s, i) ==
    IF i <= Len(s) /\ s[i] \in WordChars THEN WordRunEnd(s, i + 1) ELSE i - 1

\* whether "}" follows the word run of s that starts after i and ends at e
closesAt(s, i, e) == e >= i + 1 /\ e + 1 <= Len(s) /\ s[e + 1] = "}"

\* whether the expression \{(\w+)\} matches s at position i
DynAt(s, i) == s[i] = "{" /\ closesAt(s, i, WordRunEnd(s, i + 1))

\* the name captured by the leftmost of the matches that start at hits
firstMatch(component, hits) ==
    IF hits = {} THEN <<>>
    ELSE SubSeq(component,
                (CHOOSE h \in hits : \A g \in hits : h <= g) + 1,
                WordRunEnd(component,
                    (CHOOSE h \in hits : \A g \in hits : h <= g) + 1))

\* dyn.FindStringSubmatch(component)[1]: the name captured by the leftmost
\* match of \{(\w+)\} anywhere in the component, <<>> when there is no match
dynMatch(component) ==
    firstMatch(component, {i \in 1..Len(component) : DynAt(component, i)})

(***************************************************************************)
(* parsePath and parsePattern.                                             *)
(***************************************************************************)
\* the last lines of parsePath: a slash ends the last component
endSlash(components, offset) ==
    IF offset = 0
    THEN [components EXCEPT ![Len(components)] = @ \o slash]
    ELSE components

\* parsePath after strings.SplitAfter
pathComponents(split, start, offset) ==
    endSlash(IF start = 1 \/ offset = 1
             THEN Slice(split, start, Len(split) - offset)
             ELSE split,
             offset)

\* parsePath(s) for a non-empty s: the components, each ending in a slash
parsePath(s) ==
    pathComponents(SplitAfter(s),
                   IF slashr = s[1] THEN 1 ELSE 0,
                   IF slashr = s[Len(s)] THEN 1 ELSE 0)

\* s made to start with a slash, and to end with a slash
startSlash(s) == IF slashr # s[1] THEN slash \o s ELSE s
closeSlash(s) == IF slashr # s[Len(s)] THEN s \o slash ELSE s

\* the pattern parsePattern(s) returns, for a non-empty s
normalPattern(s) == dblReplace(closeSlash(startSlash(s)))

\* components[1 : len(components)-1]
innerComponents(split) == Slice(split, 1, Len(split) - 1)

\* the components parsePattern(s) returns
parsePattern(s) == innerComponents(SplitAfter(normalPattern(s)))

(***************************************************************************)
(* The route tree.  A node is named by the sequence of child keys that     *)
(* leads to it from the root of its verb's tree (<<>> is the root); a tree *)
(* is the function from the nodes that exist to their fields.  Only a root *)
(* made by New can have a nil children map.                                *)
(***************************************************************************)
\* &tree{}
emptyTree ==
    [nilchildren |-> TRUE,
     nodes |-> (<<>> :> [handlers |-> <<>>, name |-> <<>>, pattern |-> <<>>])]

\* the nil *tree
nilTree == [nilchildren |-> TRUE, nodes |-> <<>>]

\* New()
New ==
    [connect |-> emptyTree, delete |-> emptyTree, get |-> emptyTree,
     head |-> emptyTree, options |-> emptyTree, post |-> emptyTree,
     put |-> emptyTree, trace |-> emptyTree, wild |-> FALSE]

\* mux.tree(name)
tree(m, name) ==
    CASE name = "CONNECT" -> m.connect
      [] name = "DELETE" -> m.delete
      [] name = "GET" -> m.get
      [] name = "HEAD" -> m.head
      [] name = "OPTIONS" -> m.options
      [] name = "POST" -> m.post
      [] name = "PUT" -> m.put
      [] name = "TRACE" -> m.trace
      [] OTHER -> nilTree

\* the mux after the tree that mux.tree(name) points to became tr
withTree(m, name, tr) ==
    CASE name = "CONNECT" -> [m EXCEPT !.connect = tr]
      [] name = "DELETE" -> [m EXCEPT !.delete = tr]
      [] name = "GET" -> [m EXCEPT !.get = tr]
      [] name = "HEAD" -> [m EXCEPT !.head = tr]
      [] name = "OPTIONS" -> [m EXCEPT !.options = tr]
      [] name = "POST" -> [m EXCEPT !.post = tr]
      [] name = "PUT" -> [m EXCEPT !.put = tr]
      [] name = "TRACE" -> [m EXCEPT !.trace = tr]
      [] OTHER -> m

\* (*current)[key] is not nil, for the children map of node current
hasChild(tr, current, key) == Append(current, key) \in DOMAIN tr.nodes

(***************************************************************************)
(* Errors: the nil error, or the kind of message fmt.Errorf builds with    *)
(* the verb and the pattern it prints.                                     *)
(***************************************************************************)
noError == [kind |-> "nil", verb |-> "", pattern |-> <<>>]
Errorf(kind, verb, pattern) == [kind |-> kind, verb |-> verb, pattern |-> pattern]

(***************************************************************************)
(* handlerize.  A value handed to On is [typ, isnil, id, key, nexts]: its  *)
(* Go type, whether it is a nil function, and for a function that takes    *)
(* the *Context the scratch key it sets and how often it calls Next.       *)
(* A HandlerFunc of a tree is [id, key, nexts]; the wrapper of a function  *)
(* without *Context sets no key and never calls Next.                      *)
(***************************************************************************)
\* handlerize that never sets unreachable
RECURSIVE handlerizeReachable(_, _, _, _, _, _)
handlerizeReachable(verb, pattern, fns, i, unreachable, handlers) ==
    IF i > Len(fns) THEN [handlers |-> handlers, err |-> noError]
    ELSE IF fns[i].typ \notin {"HandlerFunc", "func3", "http.HandlerFunc", "func2"}
    THEN [handlers |-> handlers, err |-> Errorf("handler must match", "", <<>>)]
    ELSE IF fns[i].isnil
    THEN [handlers |-> handlers,
          err |-> Errorf("nil middleware", verb, pattern)]
    ELSE handlerizeReachable(verb, pattern, fns, i + 1, unreachable,
            Append(handlers, [id |-> fns[i].id, key |-> fns[i].key,
                              nexts |-> fns[i].nexts]))

RECURSIVE handlerizeFrom(_, _, _, _, _, _)
handlerizeFrom(verb, pattern, fns, i, unreachable, handlers) ==
    IF i > Len(fns) THEN [handlers |-> handlers, err |-> noError]
    ELSE
        IF fns[i].typ \in {"HandlerFunc", "func3", "http.HandlerFunc", "func2"}
        THEN IF unreachable
             THEN [handlers |-> handlers,
                   err |-> Errorf("unreachable middleware", verb, pattern)]
             ELSE IF fns[i].isnil
             THEN [handlers |-> handlers,
                   err |-> Errorf("nil middleware", verb, pattern)]
             ELSE IF fns[i].typ \in {"HandlerFunc", "func3"}
             THEN handlerizeFrom(verb, pattern, fns, i + 1, unreachable,
                    Append(handlers,
                        [id |-> fns[i].id, key |-> fns[i].key, nexts |-> fns[i].nexts]))
             ELSE handlerizeFrom(verb, pattern, fns, i + 1, TRUE,
                    Append(handlers, [id |-> fns[i].id, key |-> "", nexts |-> 0]))
        ELSE [handlers |-> handlers, err |-> Errorf("handler must match", "", <<>>)]

handlerize(verb, pattern, fns) ==
    handlerizeFrom(verb, pattern, fns, 1, FALSE, <<>>)

(***************************************************************************)
(* set: the tree it leaves (nodes it made stay when it fails), the wild    *)
(* flag and the error it returns.                                          *)
(***************************************************************************)
\* the child key and the name of a pattern component, and whether it is the
\* wildcard token, given the match of dyn in it
tokenOf(component, match) ==
    IF 0 < Len(match)
    THEN [key |-> dynamic, name |-> match, wild |-> FALSE]
    ELSE IF component = lasterisk
    THEN [key |-> wildcard, name |-> asterisk, wild |-> TRUE]
    ELSE [key |-> component, name |-> <<>>, wild |-> FALSE]

\* the tree after a step that stores the name in a node that exists already
withChildRenamed(tr, node, name) ==
    IF node \in DOMAIN tr.nodes THEN [tr EXCEPT !.nodes[node].name = name]
    ELSE [tr EXCEPT !.nodes = @ @@
            (node :> [handlers |-> <<>>, name |-> name, pattern |-> <<>>])]

\* the tree after "if nil == (*current)[key] { (*current)[key] = &tree{...} }"
withChild(tr, node, name) ==
    IF node \in DOMAIN tr.nodes THEN tr
    ELSE [tr EXCEPT !.nodes = @ @@
            (node :> [handlers |-> <<>>, name |-> name, pattern |-> <<>>])]

\* the loop of set over components[index..], below the node current
RECURSIVE setFrom(_, _, _, _, _, _, _, _)

\* the body of the loop that goes on below a wildcard token
setNodeBelow(verb, tr, node, key, components, index, wild, pattern, handlers) ==
    IF index = Len(components)
    THEN IF tr.nodes[node].handlers # <<>>
         THEN [tr |-> tr, wild |-> FALSE,
               err |-> Errorf("exists", verb, pattern)]
         ELSE [tr |-> [tr EXCEPT !.nodes[node].pattern = pattern,
                                 !.nodes[node].handlers = handlers],
               wild |-> wild, err |-> noError]
    ELSE setFrom(verb, tr, node, components, index + 1, wild, pattern,
                 handlers)

\* the body of the loop once the child node of the component exists
setNode(verb, tr, node, key, components, index, wild, pattern, handlers) ==
    IF index = Len(components)
    THEN IF tr.nodes[node].handlers # <<>>
         THEN [tr |-> tr, wild |-> FALSE,
               err |-> Errorf("exists", verb, pattern)]
         ELSE [tr |-> [tr EXCEPT !.nodes[node].pattern = pattern,
                                 !.nodes[node].handlers = handlers],
               wild |-> wild, err |-> noError]
    ELSE IF key = wildcard
    THEN [tr |-> tr, wild |-> FALSE,
          err |-> Errorf("wildcard token must be last", verb, pattern)]
    ELSE setFrom(verb, tr, node, components, index + 1, wild, pattern,
                 handlers)

\* the body of the loop for the token t of the component
setToken(verb, tr, current, t, components, index, wild, pattern, handlers) ==
    setNode(verb, withChild(tr, Append(current, t.key), t.name),
            Append(current, t.key), t.key, components, index,
            wild \/ t.wild, pattern, handlers)

setFrom(verb, tr, current, components, index, wild, pattern, handlers) ==
    IF index > Len(components)
    THEN [tr |-> tr, wild |-> wild, err |-> noError]
    ELSE setToken(verb, tr, current,
                  tokenOf(components[index], dynMatch(components[index])),
                  components, index, wild, pattern, handlers)

set(verb, tr, pattern, handlers) ==
    IF pattern = slash \/ pattern = empty
    THEN IF tr.nodes[<<>>].handlers # <<>>
         THEN [tr |-> tr, wild |-> FALSE, err |-> Errorf("exists", verb, pattern)]
         ELSE [tr |-> [tr EXCEPT !.nodes[<<>>].pattern = slash,
                                 !.nodes[<<>>].handlers = handlers],
               wild |-> FALSE, err |-> noError]
    ELSE setFrom(verb, [tr EXCEPT !.nilchildren = FALSE], <<>>,
                 parsePattern(pattern), 1, FALSE, normalPattern(pattern),
                 handlers)

(***************************************************************************)
(* Mux.On: the mux it leaves and the error it returns.                     *)
(***************************************************************************)
\* the end of On, given what set returned
onSet(m, verb, s) ==
    IF s.err # noError
    THEN [mux |-> withTree(m, verb, s.tr), err |-> s.err]
    ELSE [mux |-> [withTree(m, verb, s.tr) EXCEPT !.wild = m.wild \/ s.wild],
          err |-> noError]

\* On that sets the handlers handlerize collected before it looks at its error
onHandlersLate(m, verb, pattern, h) ==
    IF h.err # noError
    THEN [mux |-> onSet(m, verb,
                        set(verb, tree(m, verb), pattern, h.handlers)).mux,
          err |-> h.err]
    ELSE onSet(m, verb, set(verb, tree(m, verb), pattern, h.handlers))

\* On after handlerize returned h
onHandlers(m, verb, pattern, h) ==
    IF h.err # noError THEN [mux |-> m, err |-> h.err]
    ELSE onSet(m, verb, set(verb, tree(m, verb), pattern, h.handlers))

\* On for a verb other than "*"
onVerb(m, verb, pattern, fns) ==
    IF tree(m, verb) = nilTree
    THEN [mux |-> m, err |-> Errorf("isn't a valid HTTP verb", verb, <<>>)]
    ELSE onHandlers(m, verb, pattern, handlerize(verb, pattern, fns))

\* the loop of On over verbs[i..] for the verb "*"
RECURSIVE onEach(_, _, _, _)

\* the loop that goes on to the next verb whatever the call returned
onNextAlways(r, i, pattern, fns) == onEach(r.mux, i + 1, pattern, fns)

\* the loop after the call of On for verbs[i] returned r
onNext(r, i, pattern, fns) ==
    IF r.err # noError THEN r ELSE onEach(r.mux, i + 1, pattern, fns)

onEach(m, i, pattern, fns) ==
    IF i > Len(verbs) THEN [mux |-> m, err |-> noError]
    ELSE onNext(onVerb(m, verbs[i], pattern, fns), i, pattern, fns)

On(m, verb, pattern, fns) ==
    IF verb = "*" THEN onEach(m, 1, pattern, fns)
    ELSE onVerb(m, verb, pattern, fns)

(***************************************************************************)
(* Context.  Params and state are maps (<<>> is the nil map), handler is   *)
(* the cursor into the chain of the matched node, tree points to that node *)
(* by its verb and its name.                                               *)
(***************************************************************************)
\* new(Context)
newContext ==
    [Params |-> <<>>, state |-> <<>>, handler |-> 0,
     tree |-> [verb |-> "", node |-> <<>>]]

\* ctx.param that stores the component whole, with its trailing slash
paramWhole(Params, key, value) == (key :> value) @@ Params

\* the Params map after ctx.param(key, value, capacity)
param(Params, key, value) ==
    (key :> Slice(value, 0, Len(value) - 1)) @@ Params

\* ctx.Get(key), "nil" for a key that was never set
Get(ctx, key) ==
    IF key \in DOMAIN ctx.state THEN ctx.state[key] ELSE "nil"

\* ctx.Set that makes a new state map at every call
SetAlone(ctx, key, value) == [ctx EXCEPT !.state = (key :> value)]

\* the context after ctx.Set(key, value)
Set(ctx, key, value) == [ctx EXCEPT !.state = (key :> value) @@ ctx.state]

\* ctx.tree.handlers
chainOf(m, ctx) == tree(m, ctx.tree.verb).nodes[ctx.tree.node].handlers

\* ctx.Pattern()
Pattern(m, ctx) == tree(m, ctx.tree.verb).nodes[ctx.tree.node].pattern

(***************************************************************************)
(* The routing part of Mux.ServeHTTP: what the request ends in ("404" for  *)
(* http.NotFound, "handler" for a call of handlers[0] of node, "panic" for *)
(* an index out of range, "silent" for a return without any response) and  *)
(* the Params of the context at that moment.                               *)
(***************************************************************************)
notFound(Params) == [status |-> "404", node |-> <<>>, Params |-> Params]

\* node.handlers[0](res, req, context)
callFirst(tr, node, Params) ==
    IF tr.nodes[node].handlers = <<>>
    THEN [status |-> "panic", node |-> node, Params |-> Params]
    ELSE [status |-> "handler", node |-> node, Params |-> Params]

\* the same without the test for a nil wild
wildOrPanic(tr, wild, Params) ==
    IF wild = <<>> THEN [status |-> "panic", node |-> <<>>, Params |-> Params]
    ELSE callFirst(tr, wild[1], Params)

\* "if nil == wild { http.NotFound } else { wild.handlers[0](...) }"
wildOrNotFound(tr, wild, Params) ==
    IF wild = <<>> THEN notFound(Params) ELSE callFirst(tr, wild[1], Params)

\* "if nil == current.handlers { http.NotFound } else { handlers[0](...) }"
lastComponent(tr, node, Params) ==
    IF tr.nodes[node].handlers = <<>> THEN notFound(Params)
    ELSE callFirst(tr, node, Params)

\* the loop taken when mux.wild is false
RECURSIVE simpleWalk(_, _, _, _, _)

\* the end of the loop's body, once current is the child node
simpleStep(tr, node, components, index, Params) ==
    IF index = Len(components) THEN lastComponent(tr, node, Params)
    ELSE simpleWalk(tr, node, components, index + 1, Params)

simpleWalk(tr, current, components, index, Params) ==
    IF index > Len(components)
    THEN [status |-> "silent", node |-> <<>>, Params |-> Params]
    ELSE IF current = <<>> /\ tr.nilchildren THEN notFound(Params)
    ELSE IF hasChild(tr, current, components[index])
    THEN simpleStep(tr, Append(current, components[index]), components,
                    index, Params)
    ELSE IF hasChild(tr, current, dynamic)
    THEN simpleStep(tr, Append(current, dynamic), components, index,
                    param(Params, tr.nodes[Append(current, dynamic)].name,
                          components[index]))
    ELSE notFound(Params)

\* strings.Join(components[index:], ""), index counted from 1
rest(components, index) == Join(SubSeq(components, index, Len(components)))

\* the loop taken when mux.wild is true; wild is <<>> for nil and <<node>>
\* for the wildcard node recorded so far
RECURSIVE wildWalk(_, _, _, _, _, _)

\* the end of the loop's body, once current is the child node
wildStep(tr, node, wild, components, index, Params) ==
    IF index = Len(components) THEN lastComponent(tr, node, Params)
    ELSE IF hasChild(tr, node, wildcard)
    THEN wildWalk(tr, node, <<Append(node, wildcard)>>, components,
                  index + 1, param(Params, asterisk, rest(components, index)))
    ELSE wildWalk(tr, node, wild, components, index + 1, Params)

\* the body for a component that is no child of current, after the closer
\* wildcard was looked for
wildMissing(tr, current, wild, components, index, Params) ==
    IF hasChild(tr, current, dynamic)
    THEN wildStep(tr, Append(current, dynamic), wild, components, index,
                  param(Params, tr.nodes[Append(current, dynamic)].name,
                        components[index]))
    ELSE callFirst(tr, wild[1], Params)

wildWalk(tr, current, wild, components, index, Params) ==
    IF index > Len(components)
    THEN [status |-> "silent", node |-> <<>>, Params |-> Params]
    ELSE IF current = <<>> /\ tr.nilchildren
    THEN wildOrNotFound(tr, wild, Params)
    ELSE IF hasChild(tr, current, components[index])
    THEN wildStep(tr, Append(current, components[index]), wild, components,
                  index, Params)
    ELSE IF hasChild(tr, current, wildcard)
    THEN wildMissing(tr, current, <<Append(current, wildcard)>>, components,
                     index, param(Params, asterisk, rest(components, index)))
    ELSE IF hasChild(tr, current, dynamic)
    THEN wildMissing(tr, current, wild, components, index, Params)
    ELSE wildOrNotFound(tr, wild, Params)

\* ServeHTTP's routing in the tree tr of the request's method
routeIn(tr, wild, path) ==
    IF tr = nilTree THEN notFound(<<>>)
    ELSE IF path = slash \/ path = empty
    THEN IF tr.nodes[<<>>].handlers # <<>> THEN callFirst(tr, <<>>, <<>>)
         ELSE IF hasChild(tr, <<>>, wildcard)
         THEN callFirst(tr, <<wildcard>>, <<>>)
         ELSE notFound(<<>>)
    ELSE IF ~wild THEN simpleWalk(tr, <<>>, parsePath(path), 1, <<>>)
    ELSE wildWalk(tr, <<>>,
                  IF hasChild(tr, <<>>, wildcard) THEN <<(<<wildcard>>)>>
                  ELSE <<>>,
                  parsePath(path), 1, <<>>)

\* the routing of a request with method and path
route(m, method, path) == routeIn(tree(m, method), m.wild, path)

(***************************************************************************)
(* The state: the multiplexer, the calls of On made so far, each with the  *)
(* error it returned, and the one request being served: its method and     *)
(* path, how ServeHTTP answered, its Context, the stack of handlers that   *)
(* are running (each frame with the handler's index in the chain and the   *)
(* calls of Next it still makes) and the indexes of the handlers invoked   *)
(* so far, in order.  A second request can be in flight in a goroutine     *)
(* that is not running at the moment: parked holds what is its own.        *)
(***************************************************************************)
VARIABLES mux, log, req, res, ctx, stack, visited, parked

vars == <<mux, log, req, res, ctx, stack, visited, parked>>

\* the number of calls of On in a run of the routing specification
MaxCalls == 2

\* the number of calls of On in a run of the middleware specification
MaxChains == 1

noRequest == [method |-> "", path |-> <<>>]

\* a goroutine that serves no request
idle ==
    [req |-> noRequest, res |-> "", ctx |-> newContext, stack |-> <<>>,
     visited |-> <<>>]

Init ==
    /\ parked = idle
    /\ mux = New
    /\ log = <<>>
    /\ req = noRequest
    /\ res = ""
    /\ ctx = newContext
    /\ stack = <<>>
    /\ visited = <<>>

\* the context after the body of handler h ran up to its first call of Next
enter(c, h) == IF h.key = "" THEN c ELSE Set(c, h.key, h.id)

\* what the call mux.On(verb, pattern, fns...) that returns r leaves
onReturn(r, verb, pattern, fns) ==
    /\ mux' = r.mux
    /\ log' = Append(log, [verb |-> verb, pattern |-> pattern, fns |-> fns,
                           err |-> r.err])

\* a call mux.On(verb, pattern, fns...), made while no request is served
OnCall(verb, pattern, fns) ==
    /\ req = noRequest
    /\ onReturn(On(mux, verb, pattern, fns), verb, pattern, fns)
    /\ UNCHANGED <<req, res, ctx, stack, visited, parked>>

\* the first handler h of the matched node is invoked with the context c
invoke(c, h, index) ==
    /\ ctx' = enter(c, h)
    /\ stack' = Append(stack, [h |-> index, left |-> h.nexts])
    /\ visited' = Append(visited, index)

\* ServeHTTP that takes the stored values of the Context of the other request
serveShared(method, r) ==
    /\ res' = r.status
    /\ IF r.status = "handler"
       THEN invoke([newContext EXCEPT
                        !.Params = r.Params,
                        !.state = parked.ctx.state,
                        !.tree = [verb |-> method, node |-> r.node]],
                   tree(mux, method).nodes[r.node].handlers[1], 0)
       ELSE /\ ctx' = [newContext EXCEPT !.Params = r.Params]
            /\ stack' = <<>>
            /\ visited' = <<>>

\* the end of ServeHTTP for a request of method that was routed as r
serve(method, r) ==
    /\ res' = r.status
    /\ IF r.status = "handler"
       THEN invoke([newContext EXCEPT
                        !.Params = r.Params,
                        !.tree = [verb |-> method, node |-> r.node]],
                   tree(mux, method).nodes[r.node].handlers[1], 0)
       ELSE /\ ctx' = [newContext EXCEPT !.Params = r.Params]
            /\ stack' = <<>>
            /\ visited' = <<>>

\* mux.ServeHTTP(res, req) up to the first call of Next by handlers[0]
ServeHTTP(method, path) ==
    /\ req = noRequest
    /\ serve(method, route(mux, method, path))
    /\ req' = [method |-> method, path |-> path]
    /\ UNCHANGED <<mux, log, parked>>

\* Next that leaves the cursor where it is
NextSame ==
    /\ stack # <<>>
    /\ stack[Len(stack)].left > 0
    /\ LET top == Len(stack)
           handlers == Len(chainOf(mux, ctx))
           caller == [stack EXCEPT ![top].left = @ - 1]
           h == chainOf(mux, ctx)[ctx.handler + 1]
       IN  /\ ctx' = enter(ctx, h)
           /\ stack' = Append(caller, [h |-> ctx.handler, left |-> h.nexts])
           /\ visited' = Append(visited, ctx.handler)
    /\ UNCHANGED <<mux, log, req, res, parked>>

\* Next that invokes the last handler again when the cursor is past the chain
NextAgain ==
    /\ stack # <<>>
    /\ stack[Len(stack)].left > 0
    /\ LET top == Len(stack)
           handlers == Len(chainOf(mux, ctx))
           c == [ctx EXCEPT !.handler = @ + 1]
           caller == [stack EXCEPT ![top].left = @ - 1]
           h == chainOf(mux, ctx)[IF handlers > c.handler
                                  THEN c.handler + 1 ELSE handlers]
       IN  /\ ctx' = enter(c, h)
           /\ stack' = Append(caller, [h |-> c.handler, left |-> h.nexts])
           /\ visited' = Append(visited, c.handler)
    /\ UNCHANGED <<mux, log, req, res, parked>>

\* the running handler calls ctx.Next(res, req); the handler Next invokes
\* runs up to its own first call of Next
Next ==
    /\ stack # <<>>
    /\ stack[Len(stack)].left > 0
    /\ LET top == Len(stack)
           handlers == Len(chainOf(mux, ctx))
           c == [ctx EXCEPT !.handler = @ + 1]
           caller == [stack EXCEPT ![top].left = @ - 1]
       IN  IF handlers > c.handler
           THEN LET h == chainOf(mux, ctx)[c.handler + 1] IN
                /\ ctx' = enter(c, h)
                /\ stack' = Append(caller, [h |-> c.handler, left |-> h.nexts])
                /\ visited' = Append(visited, c.handler)
           ELSE /\ ctx' = c
                /\ stack' = caller
                /\ UNCHANGED visited
    /\ UNCHANGED <<mux, log, req, res, parked>>

\* the running handler returns
Return ==
    /\ stack # <<>>
    /\ stack[Len(stack)].left = 0
    /\ stack' = SubSeq(stack, 1, Len(stack) - 1)
    /\ UNCHANGED <<mux, log, req, res, ctx, visited, parked>>

\* ServeHTTP has returned: the request is over and its Context is garbage
Finish ==
    /\ req # noRequest
    /\ stack = <<>>
    /\ req' = noRequest
    /\ res' = ""
    /\ ctx' = newContext
    /\ visited' = <<>>
    /\ UNCHANGED <<mux, log, stack, parked>>

\* the goroutine that serves the request stops running and the other
\* goroutine runs: it goes on with its request, or is free to serve one
Switch ==
    /\ req # noRequest \/ parked.req # noRequest
    /\ parked' = [req |-> req, res |-> res, ctx |-> ctx, stack |-> stack,
                  visited |-> visited]
    /\ req' = parked.req
    /\ res' = parked.res
    /\ ctx' = parked.ctx
    /\ stack' = parked.stack
    /\ visited' = parked.visited
    /\ UNCHANGED <<mux, log>>

(***************************************************************************)
(* The inputs of the routing specification: patterns and paths over the    *)
(* segments a, b, c, the parameter names x, y and the wildcard.            *)
(***************************************************************************)
\* a function with the signature of bear.HandlerFunc
bearFunc(id, key, nexts) ==
    [typ |-> "func3", isnil |-> FALSE, id |-> id, key |-> key, nexts |-> nexts]

\* a function with the signature of http.HandlerFunc
httpFunc(id) ==
    [typ |-> "func2", isnil |-> FALSE, id |-> id, key |-> "", nexts |-> 0]

Patterns ==
    { <<"/">>,
      <<"/", "/">>,
      <<"/", "*">>,
      <<"/", "a">>,
      <<"a", "/">>,
      <<"/", "a", "/", "b">>,
      <<"/", "a", "/", "/", "b">>,
      <<"/", "a", "/", "*">>,
      <<"/", "a", "/", "b", "/", "*">>,
      <<"/", "{", "x", "}">>,
      <<"/", "{", "x", "}", "/", "b">>,
      <<"/", "{", "y", "}", "/", "c">>,
      <<"/", "{", "x", "}", "/", "*">>,
      <<"/", "{", "x", "}", "/", "{", "x", "}">>,
      <<"/", "*", "/", "a">>,
      <<"/", "a", "/", "b", "/", "c">>,
      <<"/", "a", "/", "{", "x", "}", "/", "*">>,
      <<"/", "a", "/", "{", "x", "}", "/", "b", "/", "{", "y", "}">> }

Paths ==
    { <<"/">>,
      <<>>,
      <<"/", "a">>,
      <<"/", "a", "/">>,
      <<"/", "a", "/", "/">>,
      <<"a">>,
      <<"/", "b">>,
      <<"/", "a", "/", "b">>,
      <<"/", "a", "/", "c">>,
      <<"/", "b", "/", "c">>,
      <<"/", "a", "/", "b", "/", "c">>,
      <<"/", "a", "/", "c", "/", "b">>,
      <<"/", "a", "/", "b", "/", "b", "/", "c">>,
      <<"/", "a", "/", "c", "/", "b", "/", "c">>,
      <<"/", "/">>,
      <<"/", "a", "/", "/", "b">> }

Methods == {"GET", "POST", "PATCH"}

\* the patterns registered for a second verb
OtherPatterns == { <<"/", "*">>, <<"/", "a">>, <<"/", "*", "/", "a">> }

\* every pattern is registered with a handler of its own
Registrations ==
    {[verb |-> "GET", pattern |-> p, fns |-> <<bearFunc(p, "", 0)>>] :
        p \in Patterns}
    \cup
    {[verb |-> "POST", pattern |-> p, fns |-> <<bearFunc(p, "", 0)>>] :
        p \in OtherPatterns}

Register ==
    /\ Len(log) < MaxCalls
    /\ \E r \in Registrations : OnCall(r.verb, r.pattern, r.fns)

Serve == \E method \in Methods, path \in Paths : ServeHTTP(method, path)

Step == Register \/ Serve \/ Return \/ Finish

Spec == Init /\ [][Step]_vars

(***************************************************************************)
(* The inputs of the middleware specification: chains of handlers that     *)
(* store a value and call Next, registered with every verb and with "*".   *)
(***************************************************************************)
Chains ==
    { <<bearFunc(1, "one", 1), bearFunc(2, "two", 1), bearFunc(3, "", 0)>>,
      <<bearFunc(1, "one", 1), httpFunc(2)>>,
      <<bearFunc(1, "one", 0), bearFunc(2, "two", 0)>>,
      <<bearFunc(1, "one", 1), bearFunc(2, "two", 2)>>,
      <<bearFunc(1, "", 1)>>,
      <<bearFunc(1, "", 0)>>,
      <<bearFunc(1, "", 2), bearFunc(2, "", 0), bearFunc(3, "", 0)>> }

ChainPatterns ==
    { <<"/">>, <<"/", "a", "/", "{", "x", "}">>, <<"/", "a", "/", "*">> }

ChainPaths == { <<"/">>, <<"/", "a">>, <<"/", "a", "/", "b">> }

ChainVerbs == {verbs[i] : i \in 1..Len(verbs)} \cup {"*"}

RegisterChain ==
    /\ Len(log) < MaxChains
    /\ \E verb \in ChainVerbs, pattern \in ChainPatterns, fns \in Chains :
           OnCall(verb, pattern, fns)

ServeChain ==
    \E method \in ChainVerbs, path \in ChainPaths : ServeHTTP(method, path)

StepChain == RegisterChain \/ ServeChain \/ Next \/ Return \/ Finish

SpecChain == Init /\ [][StepChain]_vars

(***************************************************************************)
(* The concurrent specification: after the calls of On, two goroutines     *)
(* serve requests, and either can run between any two steps of the other.  *)
(* No call of On is made while a request is in flight.                     *)
(***************************************************************************)
ConcurrentVerbs == { "GET", "*" }

ConcurrentPatterns ==
    { <<"/", "a", "/", "{", "x", "}">>, <<"/", "a", "/", "*">> }

ConcurrentMethods == { "GET", "POST" }

ConcurrentPaths ==
    { <<"/", "a">>, <<"/", "a", "/", "b">>, <<"/", "a", "/", "c">> }

RegisterFirst ==
    /\ Len(log) < MaxChains
    /\ parked = idle
    /\ \E verb \in ConcurrentVerbs, pattern \in ConcurrentPatterns,
          fns \in Chains :
           OnCall(verb, pattern, fns)

ServeConcurrent ==
    \E method \in ConcurrentMethods, path \in ConcurrentPaths :
        ServeHTTP(method, path)

StepConcurrent ==
    RegisterFirst \/ ServeConcurrent \/ Next \/ Return \/ Finish \/ Switch

SpecConcurrent == Init /\ [][StepConcurrent]_vars

(***************************************************************************)
(* The inputs of the registration specification: calls of On with every    *)
(* verb, with "*" and with a verb in lower case, for a pattern, a pattern  *)
(* with a wildcard before its end, and handler lists that handlerize       *)
(* accepts or rejects.                                                     *)
(***************************************************************************)
\* the number of calls of On in a run of the registration specification
MaxOn == 2

\* a nil function with the signature of bear.HandlerFunc
nilFunc ==
    [typ |-> "func3", isnil |-> TRUE, id |-> 0, key |-> "", nexts |-> 0]

\* a value that is no function
badFunc ==
    [typ |-> "string", isnil |-> FALSE, id |-> 0, key |-> "", nexts |-> 0]

OnVerbs == {verbs[i] : i \in 1..Len(verbs)} \cup {"*", "get"}

OnPatterns == { <<"/", "a">>, <<"/", "*", "/", "a">> }

OnHandlers ==
    { <<>>,
      <<bearFunc(1, "", 0)>>,
      <<bearFunc(2, "", 0), httpFunc(3)>>,
      <<httpFunc(3), bearFunc(4, "", 0)>>,
      <<bearFunc(1, "", 0), nilFunc>>,
      <<badFunc>> }

RegisterOn ==
    /\ Len(log) < MaxOn
    /\ \E verb \in OnVerbs, pattern \in OnPatterns, fns \in OnHandlers :
           OnCall(verb, pattern, fns)

SpecOn == Init /\ [][RegisterOn]_vars

(***************************************************************************)
(* What the properties speak of: the segments of a path and the tokens of  *)
(* a pattern, read off the strings themselves, when a path satisfies a     *)
(* pattern, and which of two patterns is the more specific one.            *)
(***************************************************************************)
\* the fields of s between its slashes, after the field that was begun
RECURSIVE SplitOn(_, _)
SplitOn(s, field) ==
    IF s = <<>> THEN <<field>>
    ELSE IF Head(s) = "/" THEN <<field>> \o SplitOn(Tail(s), <<>>)
    ELSE SplitOn(Tail(s), Append(field, Head(s)))

\* the fields without the empty one before a leading and after a trailing slash
Trim(fields) ==
    SubSeq(fields,
           IF fields[1] = <<>> THEN 2 ELSE 1,
           IF Len(fields) > 1 /\ fields[Len(fields)] = <<>>
           THEN Len(fields) - 1 ELSE Len(fields))

\* the segments of a request path, none for the root path
Segments(path) == Trim(SplitOn(path, <<>>))

\* the tokens of a pattern, none for the root pattern
Tokens(pattern) == SelectSeq(SplitOn(pattern, <<>>), LAMBDA f : f # <<>>)

\* a string without empty segments (without "//")
Plain(s) == \A i \in 1..Len(Segments(s)) : Segments(s)[i] # <<>>

Kind(token) ==
    IF token = asterisk THEN "wildcard"
    ELSE IF token[1] = "{" /\ token[Len(token)] = "}" THEN "named"
    ELSE "static"

Rank(token) ==
    CASE Kind(token) = "static" -> 3
      [] Kind(token) = "named" -> 2
      [] OTHER -> 1

\* the segments satisfy the tokens: a static token equals its segment, a
\* named token takes any one segment, a last wildcard takes one or more
RECURSIVE Satisfies(_, _)
Satisfies(segments, tokens) ==
    IF tokens = <<>> THEN segments = <<>>
    ELSE IF Kind(Head(tokens)) = "wildcard"
    THEN Len(tokens) = 1 /\ segments # <<>>
    ELSE /\ segments # <<>>
         /\ Kind(Head(tokens)) = "static" => Head(segments) = Head(tokens)
         /\ Satisfies(Tail(segments), Tail(tokens))

\* the same, with the root path satisfying the root wildcard
Matches(segments, tokens) ==
    \/ Satisfies(segments, tokens)
    \/ segments = <<>> /\ tokens = <<asterisk>>

\* of two token sequences satisfied by one path, t1 is the more specific:
\* at the first position where their kinds differ, t1 has the higher kind
Beats(t1, t2) ==
    \E i \in 1..Len(t2) :
        /\ i > Len(t1) \/ Rank(t1[i]) > Rank(t2[i])
        /\ \A j \in 1..(i - 1) : j <= Len(t1) /\ Rank(t1[j]) = Rank(t2[j])

\* segments joined by "/"
RECURSIVE JoinSlash(_)
JoinSlash(segments) ==
    IF segments = <<>> THEN <<>>
    ELSE IF Len(segments) = 1 THEN Head(segments)
    ELSE Head(segments) \o slash \o JoinSlash(Tail(segments))

Recognized == {verbs[i] : i \in 1..Len(verbs)}

\* the patterns registered for a verb by calls of On that returned nil
Routes(verb) ==
    {log[i].pattern : i \in {j \in 1..Len(log) :
        log[j].err = noError /\ log[j].verb = verb}}

\* every call of On so far returned nil, for a pattern without "//"
AllRegistered ==
    \A i \in 1..Len(log) : log[i].err = noError /\ Plain(log[i].pattern)

\* the patterns registered for the request's verb that its path satisfies
Satisfied ==
    {p \in Routes(req.method) : Matches(Segments(req.path), Tokens(p))}

\* a request has been answered
Served == req # noRequest

\* the request was dispatched, and handlers[0] of its node was registered
\* with the pattern p
DispatchedTo(p) ==
    /\ res = "handler"
    /\ visited # <<>>
    /\ visited[1] = 0
    /\ tree(mux, req.method).nodes[ctx.tree.node].handlers[1].id = p

(***************************************************************************)
(* C1: when every route was registered without error, a request with a     *)
(* recognized verb whose path (without empty segments) satisfies a pattern *)
(* registered for the verb is dispatched to the first handler of the most  *)
(* specific registered pattern it satisfies, never answered 404.           *)
(***************************************************************************)
C1_DispatchesMostSpecific ==
    (/\ Served
     /\ req.method \in Recognized
     /\ AllRegistered
     /\ Plain(req.path)
     /\ Satisfied # {})
    => \E p \in Satisfied :
        /\ DispatchedTo(p)
        /\ \A o \in Satisfied : ~Beats(Tokens(o), Tokens(p))

(***************************************************************************)
(* C2: a call of On for a concrete verb and a pattern that normalizes to   *)
(* the pattern of an earlier successful call for that verb returns an      *)
(* error, and every request is routed after it as it was before.           *)
(***************************************************************************)
C2_DuplicateFails ==
    [][(/\ Len(log') = Len(log) + 1
        /\ \E i \in 1..Len(log) :
            /\ log[i].err = noError
            /\ log[i].verb \in Recognized
            /\ log[i].verb = log'[Len(log')].verb
            /\ normalPattern(log[i].pattern) =
                   normalPattern(log'[Len(log')].pattern))
       => /\ log'[Len(log')].err # noError
          /\ \A method \in Methods, path \in Paths :
                route(mux', method, path) = route(mux, method, path)]_vars

(***************************************************************************)
(* C3: a trailing slash is implied: every non-root path is routed as the   *)
(* path with one more "/" at its end is, and a pattern has the components  *)
(* of the pattern with one more "/" at its end.                            *)
(***************************************************************************)
C3_TrailingSlash ==
    /\ \A method \in Methods, path \in Paths \ {slash, empty} :
            route(mux, method, path) = route(mux, method, path \o slash)
    /\ \A i \in 1..Len(log) :
            log[i].pattern[Len(log[i].pattern)] # slashr
            => parsePattern(log[i].pattern) =
                   parsePattern(log[i].pattern \o slash)

(***************************************************************************)
(* C4, as claimed: when a request is dispatched to a route, Params maps    *)
(* the name of every named token of the route's pattern to the path        *)
(* segment at the token's position (for paths without empty segments).     *)
(***************************************************************************)
\* the name between the braces of a named token
NameOf(token) == SubSeq(token, 2, Len(token) - 1)

RECURSIVE Descent(_, _, _, _)
Descent(tr, current, segments, i) ==
    IF i > Len(segments) THEN <<>>
    ELSE IF hasChild(tr, current, segments[i] \o slash)
    THEN <<Append(current, segments[i] \o slash)>>
         \o Descent(tr, Append(current, segments[i] \o slash), segments, i + 1)
    ELSE IF hasChild(tr, current, dynamic)
    THEN <<Append(current, dynamic)>>
         \o Descent(tr, Append(current, dynamic), segments, i + 1)
    ELSE <<>>

\* the positions of the descent d at which the walk binds the name
Binds(tr, d, name) ==
    {j \in 1..Len(d) : d[j][j] = dynamic /\ tr.nodes[d[j]].name = name}

\* the deepest position of a non-empty set of positions
Deepest(positions) == CHOOSE j \in positions : \A k \in positions : k <= j

\* Params carries, under the name stored at the named node at depth k of
\* the matched node, the segment of the deepest position that binds the name
BoundAt(tr, node, k, segments) ==
    /\ tr.nodes[SubSeq(node, 1, k)].name \in DOMAIN ctx.Params
    /\ k \in Binds(tr, Descent(tr, <<>>, segments, 1),
                   tr.nodes[SubSeq(node, 1, k)].name)
    /\ ctx.Params[tr.nodes[SubSeq(node, 1, k)].name] =
           segments[Deepest(Binds(tr, Descent(tr, <<>>, segments, 1),
                                  tr.nodes[SubSeq(node, 1, k)].name))]

Prefix(pattern) == SubSeq(Tokens(pattern), 1, Len(Tokens(pattern)) - 1)
IsWildcard(pattern) ==
    /\ Tokens(pattern) # <<>>
    /\ Kind(Tokens(pattern)[Len(Tokens(pattern))]) = "wildcard"

\* the segments of the request path after the prefix of a wildcard pattern
Remainder(pattern) ==
    JoinSlash(SubSeq(Segments(req.path), Len(Tokens(pattern)),
                     Len(Segments(req.path))))

(***************************************************************************)
(* C5: a request whose path is exactly the non-empty prefix P of a         *)
(* registered wildcard pattern P/* is not dispatched to it, and a request  *)
(* whose path has one or more segments after P is, when no more specific   *)
(* registered route matches, with Params["*"] the segments after P.        *)
(***************************************************************************)
C5_WildcardRemainder ==
    (Served /\ AllRegistered /\ Plain(req.path))
    => \A p \in Routes(req.method) :
        (IsWildcard(p) /\ Prefix(p) # <<>>)
        => /\ Satisfies(Segments(req.path), Prefix(p)) => ~DispatchedTo(p)
           /\ (/\ p \in Satisfied
               /\ \A o \in Satisfied : ~Beats(Tokens(o), Tokens(p)))
              => /\ DispatchedTo(p)
                 /\ asterisk \in DOMAIN ctx.Params
                 /\ ctx.Params[asterisk] = Remainder(p)

(***************************************************************************)
(* C6: a request for the root path is dispatched to the root node's chain  *)
(* when the root node has one, otherwise to the chain of /* when /* is     *)
(* registered for the verb, and otherwise answered 404.                    *)
(***************************************************************************)
C6_Root ==
    (Served /\ req.method \in Recognized /\ req.path \in {slash, empty})
    => IF tree(mux, req.method).nodes[<<>>].handlers # <<>>
       THEN res = "handler" /\ ctx.tree.node = <<>>
       ELSE IF \E p \in Routes(req.method) : Tokens(p) = <<asterisk>>
       THEN \E p \in Routes(req.method) :
                Tokens(p) = <<asterisk>> /\ DispatchedTo(p)
       ELSE res = "404"

(***************************************************************************)
(* C7: with wildcard patterns registered at several depths, a request that *)
(* matches no route without a wildcard is dispatched to the deepest        *)
(* wildcard pattern whose prefix matches its path, with Params["*"] the    *)
(* remainder of the path after that prefix.                                *)
(***************************************************************************)
C7_DeepestWildcard ==
    (/\ Served
     /\ AllRegistered
     /\ Plain(req.path)
     /\ Cardinality({p \in Routes(req.method) : IsWildcard(p)}) > 1
     /\ \A p \in Satisfied : IsWildcard(p))
    => \A p \in Satisfied :
        (\A o \in Satisfied : Len(Tokens(o)) <= Len(Tokens(p)))
        => /\ DispatchedTo(p)
           /\ Segments(req.path) # <<>>
              => /\ asterisk \in DOMAIN ctx.Params
                 /\ ctx.Params[asterisk] = Remainder(p)

(***************************************************************************)
(* C8: the node a request is dispatched to is reached through the static   *)
(* child of a segment wherever there is one, and a request is dispatched   *)
(* to a wildcard route only when no registered route without a wildcard    *)
(* matches it.                                                             *)
(***************************************************************************)
C8_StaticNamedWildcard ==
    (Served /\ AllRegistered /\ Plain(req.path))
    => \A p \in Routes(req.method) :
        DispatchedTo(p)
        => /\ \A k \in 1..Len(ctx.tree.node) :
                ctx.tree.node[k] = dynamic
                => ~hasChild(tree(mux, req.method),
                             SubSeq(ctx.tree.node, 1, k - 1),
                             Segments(req.path)[k] \o slash)
           /\ IsWildcard(p) => \A o \in Satisfied : IsWildcard(o)

(***************************************************************************)
(* C9: a request is answered 404 and no handler is invoked when its method *)
(* is not a recognized verb or when its path matches no route registered   *)
(* for the verb.                                                           *)
(***************************************************************************)
C9_NotFound ==
    (/\ Served
     /\ \A i \in 1..Len(log) : Plain(log[i].pattern)
     /\ Plain(req.path)
     /\ req.method \notin Recognized \/ Satisfied = {})
    => res = "404" /\ visited = <<>>

\* the chain of the node the request was dispatched to
Chain == tree(mux, req.method).nodes[ctx.tree.node].handlers

\* every handler of the chain except the last calls Next exactly once
CallsNextOnce(chain) == \A i \in 1..(Len(chain) - 1) : chain[i].nexts = 1

(***************************************************************************)
(* C10: for every recognized verb, when the handlers of the matched chain  *)
(* except the last call Next exactly once each, the handlers are invoked   *)
(* in registration order, each once and all of them by the time ServeHTTP  *)
(* returns, on one Context in which every value stored by a handler        *)
(* invoked so far and the Params bound by the walk are there.              *)
(***************************************************************************)
C10_Middleware ==
    (Served /\ res = "handler" /\ CallsNextOnce(Chain))
    => /\ req.method \in Recognized
       /\ \A i \in 1..Len(visited) : visited[i] = i - 1
       /\ Len(visited) <= Len(Chain)
       /\ stack = <<>> => Len(visited) = Len(Chain)
       /\ \A i \in 1..Len(visited) :
            Chain[i].key # ""
            => /\ Chain[i].key \in DOMAIN ctx.state
               /\ Get(ctx, Chain[i].key) = Chain[i].id
       /\ ctx.Params = route(mux, req.method, req.path).Params
       /\ ctx.tree.node = route(mux, req.method, req.path).node

\* a chain of three handlers has run to its end with a parameter bound
C10_Witness ==
    /\ Served
    /\ res = "handler"
    /\ stack = <<>>
    /\ visited = <<0, 1, 2>>
    /\ DOMAIN ctx.state = {"one", "two"}
    /\ Get(ctx, "one") = 1
    /\ Get(ctx, "two") = 2
    /\ DOMAIN ctx.Params = {<<"x">>}

(***************************************************************************)
(* What the properties of On speak of: the call that a step makes, and     *)
(* the kinds of the handlers in its list.                                  *)
(***************************************************************************)
\* the step is a call of On
Called == Len(log') = Len(log) + 1

\* the last call of On
LastCall == log[Len(log)]

\* a function that handlerize wraps, after which no handler is reachable
IsTerminal(fn) == fn.typ \in {"http.HandlerFunc", "func2"}

\* the list has a terminal handler that is not its last handler
TerminalBeforeLast(fns) ==
    \E i \in 1..(Len(fns) - 1) : IsTerminal(fns[i])

(***************************************************************************)
(* C11: for every verb, a call of On whose handler list has a terminal     *)
(* handler followed by another handler returns an error and leaves the mux *)
(* as it was, so that a call that changes the mux has a terminal handler   *)
(* in the last position of its list only.                                  *)
(***************************************************************************)
C11_TerminalLast ==
    [][Called
       => /\ TerminalBeforeLast(log'[Len(log')].fns)
             => log'[Len(log')].err # noError /\ mux' = mux
          /\ mux' # mux => ~TerminalBeforeLast(log'[Len(log')].fns)]_vars

\* On was called with a verb it knows and a terminal handler before the last
C11_Witness ==
    /\ log # <<>>
    /\ LastCall.verb \in Recognized
    /\ TerminalBeforeLast(LastCall.fns)
    /\ LastCall.err.kind = "unreachable middleware"

\* the routes of a tree: its nodes that have handlers, with their handlers
HandlersIn(tr) ==
    {<<n, tr.nodes[n].handlers>> :
        n \in {d \in DOMAIN tr.nodes : tr.nodes[d].handlers # <<>>}}

\* the step added a route to the tree of the verb, with the handlers fns
RegisteredFor(verb, fns) ==
    \E n \in DOMAIN tree(mux', verb).nodes :
        /\ <<n, tree(mux', verb).nodes[n].handlers>> \notin HandlersIn(tree(mux, verb))
        /\ Len(tree(mux', verb).nodes[n].handlers) = Len(fns)
        /\ \A j \in 1..Len(fns) :
               tree(mux', verb).nodes[n].handlers[j].id = fns[j].id

\* what On for the verb alone returns for the arguments of the call c
Alone(c, i) == onVerb(mux, verbs[i], c.pattern, c.fns).err

\* the verbs for which On alone fails for the arguments of the call c
Failing(c) == {i \in 1..Len(verbs) : Alone(c, i) # noError}

\* the first of a set of numbers
Least(S) == CHOOSE i \in S : \A j \in S : i <= j

(***************************************************************************)
(* C12: a call of On with the verb "*" registers the pattern for CONNECT,  *)
(* DELETE, GET, HEAD, OPTIONS, POST, PUT, TRACE in this order; it returns  *)
(* nil only if the registration succeeds for all 8, and else it returns    *)
(* the error of the first verb k that fails, the routes of the verbs       *)
(* before k stay, and no route is added for k or a verb after k.           *)
(***************************************************************************)
C12_EachVerb ==
    [][Called /\ log'[Len(log')].verb = "*"
       => \A c \in {log'[Len(log')]} :
          \A failing \in {Failing(c)} :
          \A k \in {IF failing = {} THEN Len(verbs) + 1 ELSE Least(failing)} :
              /\ verbs = <<"CONNECT", "DELETE", "GET", "HEAD", "OPTIONS",
                           "POST", "PUT", "TRACE">>
              /\ c.err = noError <=> failing = {}
              /\ failing # {} => c.err = Alone(c, k)
              /\ \A i \in 1..Len(verbs) :
                     /\ i < k => RegisteredFor(verbs[i], c.fns)
                     /\ i >= k
                        => HandlersIn(tree(mux', verbs[i]))
                             = HandlersIn(tree(mux, verbs[i]))
                     /\ i > k
                        => tree(mux', verbs[i]) = tree(mux, verbs[i])]_vars

\* On with "*" failed at GET, after it registered the pattern for two verbs
C12_Witness ==
    /\ Len(log) = 2
    /\ LastCall.verb = "*"
    /\ LastCall.err = Errorf("exists", "GET", <<"/", "a", "/">>)
    /\ HandlersIn(mux.connect) # {}
    /\ HandlersIn(mux.delete) # {}
    /\ HandlersIn(mux.head) = {}
    /\ HandlersIn(mux.trace) = {}

\* a request with the verb for the path is dispatched to the chain of fns
ServedBy(verb, path, fns) ==
    LET r == route(mux, verb, path)
    IN  /\ r.status = "handler"
        /\ Len(tree(mux, verb).nodes[r.node].handlers) = Len(fns)
        /\ \A j \in 1..Len(fns) :
               tree(mux, verb).nodes[r.node].handlers[j].id = fns[j].id

(***************************************************************************)
(* C13: after On("GET", p, h1) returned nil and On("*", p, h2) returned    *)
(* the error that GET p exists, a GET request for p is served by h1 and a  *)
(* request for p with any of the other 7 verbs is served by h2.            *)
(***************************************************************************)
C13_ExistsIgnored ==
    /\ Len(log) = 2
    /\ log[1].verb = "GET"
    /\ log[1].pattern = <<"/", "a">>
    /\ log[1].err = noError
    /\ log[2].verb = "*"
    /\ log[2].pattern = <<"/", "a">>
    /\ log[2].err = Errorf("exists", "GET", <<"/", "a", "/">>)
    => /\ ServedBy("GET", <<"/", "a">>, log[1].fns)
       /\ \A verb \in Recognized \ {"GET"} :
              ServedBy(verb, <<"/", "a">>, log[2].fns)

\* a function of one of the four types that handlerize accepts
IsFunction(fn) ==
    fn.typ \in {"HandlerFunc", "func3", "http.HandlerFunc", "func2"}

\* the list has a nil function, or a value that is no function
Invalid(fns) ==
    \E i \in 1..Len(fns) : fns[i].isnil \/ ~IsFunction(fns[i])

(***************************************************************************)
(* C14: a call of On with a verb that is neither "*" nor one of the 8      *)
(* verbs in upper case, or with a handler list that has a nil handler or a *)
(* value that is neither chainable nor terminal, returns an error and      *)
(* leaves every trie and the wildcard flag as they were: no trie node is   *)
(* created before the handlers are validated.                              *)
(***************************************************************************)
C14_RejectsUntouched ==
    [][Called /\ (\/ log'[Len(log')].verb \notin Recognized \cup {"*"}
                  \/ Invalid(log'[Len(log')].fns))
       => log'[Len(log')].err # noError /\ mux' = mux]_vars

\* On refused a verb in lower case, and then a list with a nil handler for a
\* pattern that no trie has
C14_Witness ==
    /\ Len(log) = 2
    /\ log[1].verb = "get"
    /\ log[1].err.kind = "isn't a valid HTTP verb"
    /\ log[2].verb \in Recognized \cup {"*"}
    /\ \E i \in 1..Len(log[2].fns) : log[2].fns[i].isnil
    /\ log[2].err.kind = "nil middleware"
    /\ mux = New

\* the pattern has a wildcard token that is not its last token
WildcardBeforeLast(pattern) ==
    \E i \in 1..(Len(Tokens(pattern)) - 1) :
        Kind(Tokens(pattern)[i]) = "wildcard"

NextAtEnd ==
    /\ ctx'.handler = ctx.handler + 1
    /\ ctx.handler + 1 >= Len(chainOf(mux, ctx))

\* the request was served by a chain of one handler, which has returned
SingleDone == Served /\ res = "handler" /\ stack = <<>> /\ Len(Chain) = 1

(***************************************************************************)
(* C16: a call of Next with the cursor at the last handler or beyond       *)
(* invokes no handler and raises no error, however often it is called: it  *)
(* leaves the answer, the handlers invoked, the values stored and the      *)
(* Params as they are and returns to its caller.  A chain of one handler   *)
(* has, when the handler returned, invoked that handler once and stored    *)
(* its value, whether the handler called Next or not.                      *)
(***************************************************************************)
C16_NextAtEnd ==
    [][/\ NextAtEnd
          => /\ visited' = visited
             /\ res' = res
             /\ ctx'.state = ctx.state
             /\ ctx'.Params = ctx.Params
             /\ ctx'.tree = ctx.tree
             /\ Len(stack') = Len(stack)
             /\ stack'[Len(stack)].h = stack[Len(stack)].h
             /\ mux' = mux
       /\ SingleDone'
          => /\ visited' = <<0>>
             /\ ctx'.state = enter(newContext, Chain'[1]).state
             /\ ctx'.Params = route(mux', req'.method, req'.path).Params]_vars

\* the last handler of a chain of two called Next twice
C16_Witness ==
    /\ Served
    /\ res = "handler"
    /\ Len(Chain) = 2
    /\ ctx.handler = 3
    /\ visited = <<0, 1>>
    /\ stack # <<>>
    /\ stack[Len(stack)].h = 1
    /\ stack[Len(stack)].left = 0

\* what is its own of the request of the goroutine that is running
Running ==
    [req |-> req, res |-> res, ctx |-> ctx, stack |-> stack,
     visited |-> visited]

\* the keys under which the first k handlers of a chain store their values
KeysOf(chain, k) == {chain[i].key : i \in 1..k} \ {""}

\* the state of a Context holds what the first k handlers of the chain
\* stored, and nothing else
StoredBy(state, chain, k) ==
    IF KeysOf(chain, k) = {} THEN state = <<>>
    ELSE /\ DOMAIN state = KeysOf(chain, k)
         /\ \A i \in 1..k : chain[i].key # "" => state[chain[i].key] = chain[i].id

\* the lesser of two numbers
Min(a, b) == IF a < b THEN a ELSE b

\* a request in flight is where the request served alone is after as many
\* calls of Next: its answer, node and Params are those of its routing, its
\* handlers were invoked in order as far as its cursor went, and its Context
\* holds what these handlers stored
AsAlone(r) ==
    r.req # noRequest
    => LET rt == route(mux, r.req.method, r.req.path)
       IN  /\ r.res = rt.status
           /\ r.ctx.Params = rt.Params
           /\ rt.status # "handler"
              => r.visited = <<>> /\ r.stack = <<>> /\ r.ctx.state = <<>>
           /\ rt.status = "handler"
              => /\ r.ctx.tree = [verb |-> r.req.method, node |-> rt.node]
                 /\ \A i \in 1..Len(r.visited) : r.visited[i] = i - 1
                 /\ Len(r.visited)
                      = Min(r.ctx.handler + 1,
                            Len(tree(mux, r.req.method).nodes[rt.node].handlers))
                 /\ StoredBy(r.ctx.state,
                             tree(mux, r.req.method).nodes[rt.node].handlers,
                             Len(r.visited))

\* both requests in flight are as if served alone
EachAsAlone == AsAlone(Running) /\ AsAlone(parked)

(***************************************************************************)
(* C17: no step of serving a request changes the mux (its tries and its    *)
(* wildcard flag), and with two requests served concurrently after the     *)
(* calls of On, in any interleaving, each request has the handler, the     *)
(* Params, the stored values and the cursor it has when served alone: its  *)
(* Context is its own and starts fresh.                                    *)
(***************************************************************************)
C17_Concurrent ==
    /\ [][~Called => mux' = mux]_vars
    /\ []EachAsAlone

\* two requests with different Params are in flight in chains that store
\* values, one two handlers further than the other
C17_Witness ==
    /\ req # noRequest
    /\ parked.req # noRequest
    /\ res = "handler"
    /\ parked.res = "handler"
    /\ ctx.Params # parked.ctx.Params
    /\ Len(visited) = 3
    /\ Len(parked.visited) = 1
    /\ DOMAIN ctx.state = {"one", "two"}
    /\ DOMAIN parked.ctx.state = {"one"}

(***************************************************************************)
(* C18: after any calls of On, every request ends with handlers[0] of a    *)
(* node that has handlers invoked, or with the answer 404: ServeHTTP never *)
(* indexes an empty chain and never dereferences a node that is missing.   *)
(***************************************************************************)
C18_ServesOrNotFound ==
    Served
    => \/ res = "404" /\ visited = <<>>
       \/ /\ res = "handler"
          /\ ctx.tree.node \in DOMAIN tree(mux, req.method).nodes
          /\ Chain # <<>>
          /\ visited # <<>>
          /\ visited[1] = 0

\* the wildcard child of the root (k = 0) or of the k-th node of a descent
WildAt(d, k) == Append(IF k = 0 THEN <<>> ELSE d[k], wildcard)

\* the depths at which the walk along the descent d recorded a wildcard node
\* before it consumed the last segment
Recorded(tr, d) == {k \in 0..(Len(d) - 1) : WildAt(d, k) \in DOMAIN tr.nodes}

\* the walk consumed every segment of the request path and ended at a node
\* without handlers
EndsWithoutHandlers ==
    LET tr == tree(mux, req.method)
        d == Descent(tr, <<>>, Segments(req.path), 1)
    IN  /\ Segments(req.path) # <<>>
        /\ Len(d) = Len(Segments(req.path))
        /\ tr.nodes[d[Len(d)]].handlers = <<>>

(***************************************************************************)
(* C19: when the walk consumes the last segment of the path at a node      *)
(* without handlers, the request is dispatched to the wildcard node the    *)
(* walk recorded last, and answered 404 only if it recorded none.          *)
(***************************************************************************)
C19_FallsBack ==
    (/\ Served
     /\ AllRegistered
     /\ Plain(req.path)
     /\ req.method \in Recognized
     /\ req.path # <<>>
     /\ Head(req.path) = "/"
     /\ EndsWithoutHandlers)
    => LET tr == tree(mux, req.method)
           d == Descent(tr, <<>>, Segments(req.path), 1)
       IN  IF Recorded(tr, d) = {} THEN res = "404"
           ELSE /\ res = "handler"
                /\ ctx.tree.node = WildAt(d, Deepest(Recorded(tr, d)))

(***************************************************************************)
(* C20: when a request for a path other than the root is dispatched to a   *)
(* wildcard node, directly or by fallback, Params["*"] is the segments of  *)
(* the path after the prefix of that wildcard, joined by "/" and without a *)
(* trailing "/".                                                           *)
(***************************************************************************)
C20_WildcardParam ==
    (/\ Served
     /\ AllRegistered
     /\ Plain(req.path)
     /\ req.path # <<>>
     /\ Head(req.path) = "/"
     /\ Segments(req.path) # <<>>
     /\ res = "handler"
     /\ ctx.tree.node # <<>>
     /\ ctx.tree.node[Len(ctx.tree.node)] = wildcard)
    => /\ asterisk \in DOMAIN ctx.Params
       /\ ctx.Params[asterisk]
            = JoinSlash(SubSeq(Segments(req.path), Len(ctx.tree.node),
                               Len(Segments(req.path))))

\* the child key under which set stores the node of a token
KeyOf(token) ==
    IF Kind(token) = "named" THEN dynamic
    ELSE IF Kind(token) = "wildcard" THEN wildcard
    ELSE token \o slash

\* the node of the first k tokens of a pattern
NodeOf(pattern, k) == [j \in 1..k |-> KeyOf(Tokens(pattern)[j])]

\* the patterns p and q have named tokens with different names at the trie
\* position k
SharedPosition(p, q, k) ==
    /\ k <= Len(Tokens(p))
    /\ k <= Len(Tokens(q))
    /\ NodeOf(p, k) = NodeOf(q, k)
    /\ Kind(Tokens(p)[k]) = "named"
    /\ Kind(Tokens(q)[k]) = "named"
    /\ NameOf(Tokens(p)[k]) # NameOf(Tokens(q)[k])

\* two calls of On succeeded, for patterns that share the position k, and a
\* request with a path without "//" was dispatched through that position
ThroughShared(k) ==
    /\ Served
    /\ res = "handler"
    /\ Plain(req.path)
    /\ Len(log) = 2
    /\ AllRegistered
    /\ log[1].verb = req.method
    /\ log[2].verb = req.method
    /\ SharedPosition(log[1].pattern, log[2].pattern, k)
    /\ Len(ctx.tree.node) >= k
    /\ SubSeq(ctx.tree.node, 1, k) = NodeOf(log[1].pattern, k)

\* the positions of the pattern of the first call of On, once two were made
Positions ==
    IF Len(log) = 2 THEN 1..Len(Tokens(log[1].pattern)) ELSE {}

RECURSIVE Collapsed(_)
Collapsed(path) ==
    IF Len(path) < 2 THEN path
    ELSE IF path[1] = "/" /\ path[2] = "/" THEN Collapsed(Tail(path))
    ELSE <<path[1]>> \o Collapsed(Tail(path))

(***************************************************************************)
(* C22: a request whose path has a run of consecutive slashes is routed    *)
(* like the request whose path has every run collapsed to one slash: to    *)
(* the same handler or to 404, with the same Params.                       *)
(***************************************************************************)
C22_CollapsedPath ==
    (Served /\ AllRegistered /\ req.path # Collapsed(req.path))
    => /\ res = route(mux, req.method, Collapsed(req.path)).status
       /\ ctx.Params = route(mux, req.method, Collapsed(req.path)).Params
       /\ res = "handler"
          => ctx.tree.node
               = route(mux, req.method, Collapsed(req.path)).node

(***************************************************************************)
(* C23: a named token matches a segment that is not empty only: no request *)
(* is dispatched with a named parameter bound to the empty string.         *)
(***************************************************************************)
C23_NamedNotEmpty ==
    (Served /\ AllRegistered /\ res = "handler")
    => \A name \in DOMAIN ctx.Params :
           name # asterisk => ctx.Params[name] # <<>>

\* the tree has no wildcard node
NoWildcardNode(tr) ==
    \A n \in DOMAIN tr.nodes : n = <<>> \/ n[Len(n)] # wildcard

(***************************************************************************)
(* C24: for a verb whose trie has no wildcard node, the simple walk and    *)
(* the walk that looks for wildcards give every request path the same      *)
(* outcome (the same handler or 404, the same Params), so that a wildcard  *)
(* flag set by a route of another verb does not change the verb's routing. *)
(* The walks are compared for every mux, in the state before a request.    *)
(***************************************************************************)
C24_WalksAgree ==
    \A method \in Methods :
        NoWildcardNode(tree(mux, method))
        => /\ ~Served
              => \A path \in Paths :
                     routeIn(tree(mux, method), TRUE, path)
                       = routeIn(tree(mux, method), FALSE, path)
           /\ (Served /\ req.method = method)
              => /\ res = routeIn(tree(mux, method), FALSE, req.path).status
                 /\ ctx.Params
                      = routeIn(tree(mux, method), FALSE, req.path).Params

\* a request is served by a handler in a trie without a wildcard node while
\* the flag is set by a wildcard route of another verb
C24_Witness ==
    /\ Served
    /\ req.method = "POST"
    /\ res = "handler"
    /\ mux.wild
    /\ NoWildcardNode(mux.post)
    /\ ~NoWildcardNode(mux.get)

(***************************************************************************)
(* C25: a call of On with one of the 8 verbs that returns an error leaves  *)
(* the trie of the verb (its nodes, their handlers, names and patterns)    *)
(* and the wildcard flag as they were before the call.                     *)
(***************************************************************************)
C25_FailedOnUntouched ==
    [][(/\ Called
        /\ log'[Len(log')].verb \in Recognized
        /\ log'[Len(log')].err # noError)
       => /\ tree(mux', log'[Len(log')].verb) = tree(mux, log'[Len(log')].verb)
          /\ mux'.wild = mux.wild]_vars

(***************************************************************************)
(* C26: a call of On for one of the 8 verbs, whether it returns nil or an  *)
(* error, leaves the outcome of every request with another verb as it was: *)
(* the handler invoked, the Params, the answer 404 or the crash.           *)
(***************************************************************************)
C26_OtherVerbs ==
    [][(Called /\ log'[Len(log')].verb \in Recognized)
       => \A method \in Methods \ {log'[Len(log')].verb}, path \in Paths :
              route(mux', method, path) = route(mux, method, path)]_vars

(***************************************************************************)
(* C27: whenever a call of On with one of the 8 verbs returns nil, the     *)
(* node of the normalized pattern has afterwards a chain that is not empty *)
(* and holds the handlers of the call in their order, and a request with   *)
(* the verb for the pattern's own path is not answered 404.                *)
(***************************************************************************)
C27_NilMeansRegistered ==
    [][(/\ Called
        /\ log'[Len(log')].verb \in Recognized
        /\ log'[Len(log')].err = noError)
       => LET c == log'[Len(log')]
              node == NodeOf(c.pattern, Len(Tokens(c.pattern)))
          IN  /\ node \in DOMAIN tree(mux', c.verb).nodes
              /\ tree(mux', c.verb).nodes[node].handlers # <<>>
              /\ Len(tree(mux', c.verb).nodes[node].handlers) = Len(c.fns)
              /\ \A j \in 1..Len(c.fns) :
                     tree(mux', c.verb).nodes[node].handlers[j].id = c.fns[j].id
              /\ route(mux', c.verb, c.pattern).status # "404"]_vars

\* the parameter names of a pattern: those of its named tokens
NamesOf(pattern) ==
    {NameOf(Tokens(pattern)[i]) :
        i \in {j \in 1..Len(Tokens(pattern)) :
                  Kind(Tokens(pattern)[j]) = "named"}}

(***************************************************************************)
(* C28: when a handler runs, the keys of Params are the parameter names of *)
(* the pattern of the matched route, and "*" if and only if that pattern   *)
(* ends in a wildcard and the request path is not the root: nothing bound  *)
(* on a branch the walk did not match in the end is among them.            *)
(***************************************************************************)
C28_ParamKeys ==
    \A p \in Routes(req.method) :
        (Served /\ AllRegistered /\ Plain(req.path) /\ DispatchedTo(p))
        => DOMAIN ctx.Params
             = NamesOf(p) \cup
               (IF IsWildcard(p) /\ Segments(req.path) # <<>>
                THEN {asterisk} ELSE {})

\* the handlers of the chain were invoked in strictly increasing order,
\* beginning with handlers[0]
InOrder ==
    (Served /\ res = "handler")
    => /\ visited # <<>>
       /\ visited[1] = 0
       /\ \A i \in 1..Len(visited) : visited[i] < Len(Chain)
       /\ \A i, j \in 1..Len(visited) : i < j => visited[i] < visited[j]
       /\ visited[Len(visited)] <= ctx.handler

(***************************************************************************)
(* C29: within one request the cursor of the chain only increases, so that *)
(* whatever calls of Next the handlers make (none, one or several each),   *)
(* every handler of the matched chain is invoked at most once, and the     *)
(* handlers are invoked in strictly increasing order of their index,       *)
(* beginning with index 0.                                                 *)
(***************************************************************************)
C29_CursorIncreases ==
    /\ [][(req # noRequest /\ req' = req /\ parked' = parked)
          => ctx'.handler >= ctx.handler]_vars
    /\ []InOrder

\* the first handler of a chain of three called Next twice, and the second
\* handler never: each of the three was invoked once, in order
C29_Witness ==
    /\ Served
    /\ res = "handler"
    /\ Len(Chain) = 3
    /\ Chain[1].nexts = 2
    /\ Chain[2].nexts = 0
    /\ visited = <<0, 1, 2>>
    /\ ctx.handler = 2
    /\ stack = <<>>

\* the mux after the two calls of On of the log, made in the other order
Swapped ==
    On(On(New, log[2].verb, log[2].pattern, log[2].fns).mux,
       log[1].verb, log[1].pattern, log[1].fns)

\* the outcome of a request: the answer, the first handler of the node it is
\* dispatched to, and the Params
Outcome(m, method, path) ==
    LET r == route(m, method, path)
    IN  [status |-> r.status,
         handler |-> IF r.status = "handler"
                     THEN tree(m, method).nodes[r.node].handlers[1].id
                     ELSE <<>>,
         Params |-> r.Params]

(***************************************************************************)
(* C30: two calls of On for one verb, with patterns that differ after      *)
(* normalization, which both return nil, give every request the same       *)
(* outcome (the handler or 404, and the Params) in either order.           *)
(***************************************************************************)
C30_OrderOfCalls ==
    (/\ ~Served
     /\ Len(log) = 2
     /\ AllRegistered
     /\ log[1].verb = log[2].verb
     /\ Tokens(log[1].pattern) # Tokens(log[2].pattern)
     /\ Swapped.err = noError)
    => \A method \in Methods, path \in Paths :
           Outcome(mux, method, path) = Outcome(Swapped.mux, method, path)

====
